---------------------------- MODULE Spec2Model ----------------------------
(***************************************************************************)
(* Beam analysis engine (src/js/beam-analysis.js): the BeamAnalysis facade *)
(* and the two analyzers, simplySupported and twoSpanUnequal.              *)
(*                                                                         *)
(* Every number of the program is a JavaScript Number, an IEEE-754         *)
(* binary64 value, and the sampling loops accumulate rounding error in the *)
(* running position.  The first part of the module is therefore binary64   *)
(* arithmetic (round to nearest, ties to even) on top of multi-limb        *)
(* naturals; the second part is the program.                               *)
(***************************************************************************)
EXTENDS Integers, Sequences, FiniteSets

(***************************************************************************)
(* Multi-limb naturals: NL limbs of LimbBits bits, least significant      *)
(* first.  120 bits hold every intermediate of the binary64 operations     *)
(* below (a 53-bit significand shifted by at most 60 bits, a 106-bit       *)
(* product).                                                               *)
(***************************************************************************)
B == 2 ^ 15
Limbs == 1 .. 8
NL == Cardinality(Limbs)

RECURSIVE IntBitLen(_)
IntBitLen(v) == IF v = 0 THEN 0 ELSE 1 + IntBitLen(v \div 2)

LimbBits == IntBitLen(B) - 1

\* The limbs F(1), ..., F(NL) as a tuple
MkLimbs(F(_)) == <<F(1), F(2), F(3), F(4), F(5), F(6), F(7), F(8)>>

BZero == MkLimbs(LAMBDA i : 0)

\* n is a natural below 2^31
BFromNat(n) == MkLimbs(LAMBDA i : IF i = 1 THEN n % B
                                  ELSE IF i = 2 THEN (n \div B) % B
                                  ELSE IF i = 3 THEN n \div (B * B)
                                  ELSE 0)

BIsZero(a) == \A i \in Limbs : a[i] = 0

BOdd(a) == a[1] % 2 = 1

RECURSIVE BAddFrom(_, _, _, _)
\* limbs i .. NL of a + b, given the carry into limb i
BAddFrom(a, b, i, carry) ==
    IF i > NL THEN <<>>
    ELSE <<(a[i] + b[i] + carry) % B>> \o BAddFrom(a, b, i + 1, (a[i] + b[i] + carry) \div B)

BAdd(a, b) == BAddFrom(a, b, 1, 0)

\* a - b, for a >= b
RECURSIVE BSubFrom(_, _, _, _)
\* limbs i .. NL of a - b, given the borrow from limb i
BSubFrom(a, b, i, borrow) ==
    IF i > NL THEN <<>>
    ELSE <<(a[i] - b[i] - borrow + B) % B>>
         \o BSubFrom(a, b, i + 1, IF a[i] - b[i] - borrow < 0 THEN 1 ELSE 0)

BSub(a, b) == BSubFrom(a, b, 1, 0)

RECURSIVE BCmpFrom(_, _, _)
BCmpFrom(a, b, i) ==
    IF i = 0 THEN 0
    ELSE IF a[i] > b[i] THEN 1
    ELSE IF a[i] < b[i] THEN -1
    ELSE BCmpFrom(a, b, i - 1)

\* -1, 0, 1 as a < b, a = b, a > b
BCmp(a, b) == BCmpFrom(a, b, NL)

BLimb(a, i) == IF i \in Limbs THEN a[i] ELSE 0

\* a * 2^k
BShl(a, k) ==
    LET q == k \div LimbBits
        r == k % LimbBits
    IN  MkLimbs(LAMBDA i : ((BLimb(a, i - q) * (2 ^ r)) % B)
                           + (BLimb(a, i - q - 1) \div (2 ^ (LimbBits - r))))

\* floor(a / 2^k)
BShr(a, k) ==
    LET q == k \div LimbBits
        r == k % LimbBits
    IN  MkLimbs(LAMBDA i : (BLimb(a, i + q) \div (2 ^ r))
                           + ((BLimb(a, i + q + 1) % (2 ^ r)) * (2 ^ (LimbBits - r))))

RECURSIVE BBitLenFrom(_, _)
BBitLenFrom(a, i) ==
    IF i = 0 THEN 0
    ELSE IF a[i] # 0 THEN LimbBits * (i - 1) + IntBitLen(a[i])
    ELSE BBitLenFrom(a, i - 1)

\* number of significant bits of a
BBitLen(a) == BBitLenFrom(a, NL)

RECURSIVE IntTrailingZeros(_)
IntTrailingZeros(v) == IF v % 2 = 1 THEN 0 ELSE 1 + IntTrailingZeros(v \div 2)

RECURSIVE BTrailingZerosFrom(_, _)
BTrailingZerosFrom(a, i) ==
    IF a[i] # 0 THEN LimbBits * (i - 1) + IntTrailingZeros(a[i])
    ELSE BTrailingZerosFrom(a, i + 1)

\* number of trailing zero bits of a, for a # 0
BTrailingZeros(a) == BTrailingZerosFrom(a, 1)

\* a * c, for a natural c < 2^15
RECURSIVE BMulSmallFrom(_, _, _, _)
BMulSmallFrom(a, c, i, carry) ==
    IF i > NL THEN <<>>
    ELSE <<(a[i] * c + carry) % B>> \o BMulSmallFrom(a, c, i + 1, (a[i] * c + carry) \div B)

BMulSmall(a, c) == BMulSmallFrom(a, c, 1, 0)

RECURSIVE BMulFrom(_, _, _)
BMulFrom(a, b, j) ==
    IF j = 0 THEN BZero
    ELSE BAdd(BShl(BMulSmall(a, b[j]), LimbBits * (j - 1)), BMulFrom(a, b, j - 1))

\* a * b, for a and b below 2^60
BMul(a, b) == BMulFrom(a, b, 4)

\* floor(a / d) and a mod d, for a natural d with 0 < d < 2^16
RECURSIVE BDivSmallFrom(_, _, _, _)
\* limbs i .. 1 of the quotient, most significant last, and the remainder
BDivSmallFrom(a, d, i, rem) ==
    IF i = 0 THEN [quot |-> <<>>, rem |-> rem]
    ELSE LET rest == BDivSmallFrom(a, d, i - 1, (rem * B + a[i]) % d)
         IN  [quot |-> Append(rest.quot, (rem * B + a[i]) \div d), rem |-> rest.rem]

BDivSmall(a, d) == BDivSmallFrom(a, d, NL, 0)

\* the value of a, for a < 2^31
BToNat(a) == a[1] + a[2] * B + a[3] * B * B

(***************************************************************************)
(* IEEE-754 binary64 values.  A finite value is s * m * 2^e with s the     *)
(* sign, and m either 0 (then s = 1, e = 0) or a 53-bit significand        *)
(* (2^52 <= m < 2^53), so that equal values are equal records.  NaN and    *)
(* the infinities are the one value FNonFinite: in this program a          *)
(* non-finite value is only ever stored, subtracted from a finite position *)
(* and compared with a finite one, and there NaN and the infinities        *)
(* behave alike (=== and <, <= are false, !== is true).  Exponent overflow *)
(* and subnormals do not arise for the magnitudes of the model.            *)
(***************************************************************************)
\* 52 stored bits and the implicit leading bit
Significand == 52 + 1

FZero == [k |-> "fin", s |-> 1, m |-> BZero, e |-> 0]

FNonFinite == [k |-> "nonfin", s |-> 1, m |-> BZero, e |-> 0]

FIsZero(a) == a.k = "fin" /\ BIsZero(a.m)

\* s * q * 2^E for a q of at most Significand + 1 bits whose last bit, if it
\* has Significand + 1 of them, is 0
FNormal(s, q, E) ==
    IF BBitLen(q) > Significand
    THEN [k |-> "fin", s |-> s, m |-> BShr(q, 1), e |-> E + 1]
    ELSE [k |-> "fin", s |-> s, m |-> q, e |-> E]

\* s * M * 2^E with M of h > Significand bits: q is M without its last
\* p = h - Significand bits, which compare as c (-1, 0, 1) with half a unit
\* of q's last place
FRoundUp(s, q, E, sticky, c) ==
    FNormal(s, IF c = 1 \/ (c = 0 /\ (sticky \/ BOdd(q))) THEN BAdd(q, BFromNat(1)) ELSE q, E)

FRoundShift(s, M, E, sticky, p, q) ==
    FRoundUp(s, q, E + p, sticky, BCmp(BSub(M, BShl(q, p)), BShl(BFromNat(1), p - 1)))

\* s * M * 2^E for an M # 0 of h bits
FRoundBits(s, M, E, sticky, h) ==
    IF h <= Significand
    THEN [k |-> "fin", s |-> s, m |-> BShl(M, Significand - h), e |-> E - (Significand - h)]
    ELSE FRoundShift(s, M, E, sticky, h - Significand, BShr(M, h - Significand))

\* s * M * 2^E (and a little more, when sticky) rounded to nearest, ties to even
FRound(s, M, E, sticky) ==
    IF BIsZero(M) THEN FZero ELSE FRoundBits(s, M, E, sticky, BBitLen(M))

\* the Number of an integer literal or integer input, |n| < 2^31
FromInt(n) == FRound(IF n < 0 THEN -1 ELSE 1, BFromNat(IF n < 0 THEN -n ELSE n), 0, FALSE)

FNeg(a) == IF a.k = "nonfin" \/ FIsZero(a) THEN a ELSE [a EXCEPT !.s = -a.s]

\* Math.abs
FAbs(a) == IF a.k = "nonfin" THEN a ELSE [a EXCEPT !.s = 1]

\* s1 * M1 * 2^E + s2 * M2 * 2^E, where M1 compares as c (-1, 0, 1) with M2
FAddAligned(s1, M1, s2, M2, E, c) ==
    FRound(IF s1 = s2 \/ c = 1 THEN s1 ELSE s2,
           IF s1 = s2 THEN BAdd(M1, M2) ELSE IF c = 1 THEN BSub(M1, M2) ELSE BSub(M2, M1),
           E, FALSE)

\* hi + lo for non-zero hi and lo with hi.e >= lo.e, M1 being hi's
\* significand at lo's exponent.  An addend more than 60 binary places
\* below the other is less than a quarter of its last place and leaves it
\* unchanged.
FAddOrdered(hi, lo, M1) ==
    IF hi.e - lo.e > 60 THEN hi
    ELSE FAddAligned(hi.s, M1, lo.s, lo.m, lo.e, BCmp(M1, lo.m))

\* a + b
FAdd(a, b) ==
    IF a.k = "nonfin" \/ b.k = "nonfin" THEN FNonFinite
    ELSE IF FIsZero(a) THEN b
    ELSE IF FIsZero(b) THEN a
    ELSE IF a.e >= b.e THEN FAddOrdered(a, b, BShl(a.m, a.e - b.e))
    ELSE FAddOrdered(b, a, BShl(b.m, b.e - a.e))

\* a - b
FSub(a, b) == FAdd(a, FNeg(b))

\* a * b
FMul(a, b) ==
    IF a.k = "nonfin" \/ b.k = "nonfin" THEN FNonFinite
    ELSE IF FIsZero(a) \/ FIsZero(b) THEN FZero
    ELSE FRound(a.s * b.s, BMul(a.m, b.m), a.e + b.e, FALSE)

\* a / b, for a finite divisor whose significand has at most 16 significant
\* bits (every divisor of the program is an integer input, a literal, or
\* 8*(l1+l2)).  Division by zero gives NaN or an infinity.
FDiv(a, b) ==
    IF a.k = "nonfin" \/ b.k = "nonfin" \/ FIsZero(b) THEN FNonFinite
    ELSE IF FIsZero(a) THEN FZero
    ELSE LET t  == BTrailingZeros(b.m)
             d  == BToNat(BShr(b.m, t))
             qr == BDivSmall(BShl(a.m, 60), d)
         IN  FRound(a.s * b.s, qr.quot, a.e - b.e - t - 60, qr.rem # 0)

\* Math.pow(a, 3) for an integer a whose cube is exact
FCube(a) == FMul(FMul(a, a), a)

FSgn(a) == IF BIsZero(a.m) THEN 0 ELSE a.s

FMagCmp(a, b) == IF a.e # b.e THEN (IF a.e > b.e THEN 1 ELSE -1) ELSE BCmp(a.m, b.m)

\* -1, 0, 1 as a < b, a = b, a > b, for finite a and b
FCmp(a, b) ==
    IF FSgn(a) # FSgn(b) THEN (IF FSgn(a) < FSgn(b) THEN -1 ELSE 1)
    ELSE IF FSgn(a) = 0 THEN 0
    ELSE FSgn(a) * FMagCmp(a, b)

FFinite(a, b) == a.k = "fin" /\ b.k = "fin"

\* a < b, a <= b, a === b (also a == b on Numbers), a !== b
FLt(a, b) == FFinite(a, b) /\ FCmp(a, b) < 0

FLe(a, b) == FFinite(a, b) /\ FCmp(a, b) <= 0

FEq(a, b) == FFinite(a, b) /\ FCmp(a, b) = 0

FNe(a, b) == ~FEq(a, b)

\* Number.prototype.toFixed(2): the decimal string with two fraction
\* digits nearest to a, the larger of two equally near; as the sign and the
\* count n of hundredths ("-1.25" is neg, n = 125).  |a| < 2^31 / 100.
ToFixed2(a) ==
    IF a.k = "nonfin" THEN [k |-> "nonfin", neg |-> FALSE, n |-> 0]
    ELSE LET P == BMulSmall(a.m, 100)
             N == IF a.e >= 0 THEN BShl(P, a.e)
                  ELSE IF -a.e > 100 THEN BZero
                  ELSE BShr(BAdd(P, BShl(BFromNat(1), -a.e - 1)), -a.e)
         IN  [k |-> "num", neg |-> a.s = -1, n |-> BToNat(N)]

(***************************************************************************)
(* The program.  One BeamAnalysis object serves a caller that holds one    *)
(* Beam, one load and one condition string and asks for the three curves   *)
(* in turn: getDeflection, getBendingMoment, getShearForce (an exception   *)
(* does not keep it from asking for the next curve).  The getters are pure *)
(* and share no state, so the order of the calls does not change what any  *)
(* of them returns.  A getter runs the analyzer's sampling loop one        *)
(* iteration per step.                                                     *)
(***************************************************************************)
VARIABLES
    beam,       \* the caller's Beam: primarySpan, secondarySpan
    load,       \* the caller's load
    condition,  \* the caller's condition string
    pc,         \* "idle", "loop" (at the loop test), "break" (after break)
    method,     \* the getter being executed, "none" when idle
    analyzer,   \* the analyzer the getter resolved
    m,          \* the running position: x of simplySupported, m of twoSpanUnequal
    lk,         \* twoSpanUnequal: lk of deflection and bending moment, mn of shear force
    i,          \* twoSpanUnequal.getDeflectionEquation: the sample index i
    loc,        \* the method's locals w, l1, l2, l and, in twoSpanUnequal, r1, r2, r3
    xarray,     \* the array xarray of the executing method
    yarray,     \* twoSpanUnequal.getShearForceEquation: the array yarray
    point,      \* twoSpanUnequal.getDeflectionEquation: per sample, which of
                \* calculatePoint1 and calculatePoint2 computed it
    results     \* per getter, what the caller got: nothing yet, a result, an exception

vars == <<beam, load, condition, pc, method, analyzer, m, lk, i, loc, xarray, yarray,
          point, results>>

\* The caller's inputs
Beams == { [primarySpan |-> 5, secondarySpan |-> 5],
           [primarySpan |-> 9, secondarySpan |-> 21],
           [primarySpan |-> 4, secondarySpan |-> 9],
           [primarySpan |-> 9, secondarySpan |-> 4],
           [primarySpan |-> 5, secondarySpan |-> 0],
           [primarySpan |-> 0, secondarySpan |-> 0],
           [primarySpan |-> -1, secondarySpan |-> 2] }

Loads == {10, 0, -3}

Conditions == {"simply-supported", "two-span-unequal", "cantilever", "", "constructor"}

Methods == {"getDeflection", "getBendingMoment", "getShearForce"}

\* The sampling loops stop growing their arrays at MaxSamples samples.
MaxSamples == 110

\* this.analyzer, the object literal of the constructor
Registered == {"simply-supported", "two-span-unequal"}

\* Properties every object literal inherits from Object.prototype
ObjectPrototype == {"constructor", "toString", "valueOf", "hasOwnProperty",
                    "isPrototypeOf", "propertyIsEnumerable", "toLocaleString",
                    "__proto__"}

\* this.analyzer[condition]: an own property, an inherited one (an object or
\* function that is no analyzer), or undefined
Lookup(c) == IF c \in Registered THEN c
             ELSE IF c \in ObjectPrototype THEN "inherited"
             ELSE "undefined"

Analys(meth) == IF meth = "getDeflection" THEN "deflection"
                ELSE IF meth = "getBendingMoment" THEN "bendingmoment"
                ELSE "shearforce"

RECURSIVE Reverse(_)
\* Array.prototype.reverse
Reverse(a) == IF a = <<>> THEN <<>> ELSE Append(Reverse(Tail(a)), Head(a))

\* Array.prototype.unshift
Unshift(a, v) == <<v>> \o a

NoEquation == [analys |-> "", xdata |-> <<>>, ydata |-> <<>>, point |-> <<>>]

NotCalled == [st |-> "notcalled", error |-> "", beam |-> [primarySpan |-> 0, secondarySpan |-> 0],
              load |-> 0, equation |-> NoEquation]

Thrown(err) == [NotCalled EXCEPT !.st = "thrown", !.error = err]

Returned(bm, ld, eq) == [st |-> "returned", error |-> "", beam |-> bm, load |-> ld,
                         equation |-> eq]

NoLocals == [w |-> FZero, l1 |-> FZero, l2 |-> FZero, l |-> FZero,
             r1 |-> FZero, r2 |-> FZero, r3 |-> FZero]

\* w, l (the span) of the three simplySupported methods
SimplySupportedLocals(w, primarySpan) == [NoLocals EXCEPT !.w = w, !.l = primarySpan]

\* r2, and the locals of a twoSpanUnequal method as a record
TwoSpanReactions(w, l1, l2, l, r1, r3) ==
    [w |-> w, l1 |-> l1, l2 |-> l2, l |-> l, r1 |-> r1, r3 |-> r3,
     r2 |-> FSub(FSub(FAdd(FMul(w, l1), FMul(w, l2)), r1), r3)]

\* r1 and r3
TwoSpanMoment(w, l1, l2, l, m1) ==
    TwoSpanReactions(w, l1, l2, l,
                     FAdd(FDiv(m1, l1), FDiv(FMul(w, l1), FromInt(2))),
                     FAdd(FDiv(m1, l2), FDiv(FMul(w, l2), FromInt(2))))

\* w, l1, l2, l, m1, r1, r3, r2 of the three twoSpanUnequal methods
TwoSpanLocals(w, l1, l2) ==
    TwoSpanMoment(w, l1, l2, FAdd(l1, l2),
                  FDiv(FNeg(FAdd(FMul(w, FCube(l2)), FMul(w, FCube(l1)))),
                       FMul(FromInt(8), FAdd(l1, l2))))

Hundred == FromInt(100)

Init ==
    /\ beam \in Beams
    /\ load \in Loads
    /\ condition \in Conditions
    /\ pc = "idle"
    /\ method = "none"
    /\ analyzer = "none"
    /\ m = FZero
    /\ lk = FZero
    /\ i = 0
    /\ loc = NoLocals
    /\ xarray = <<>>
    /\ yarray = <<>>
    /\ point = <<>>
    /\ results = [meth \in Methods |-> NotCalled]

\* The getter the caller asks for before meth
Before(meth) == IF meth = "getBendingMoment" THEN "getDeflection"
                ELSE IF meth = "getShearForce" THEN "getBendingMoment"
                ELSE "none"

\* getDeflection, getBendingMoment, getShearForce up to the first loop test of
\* the analyzer method they call, or to their throw
Get(meth) ==
    /\ pc = "idle"
    /\ results[meth].st = "notcalled"
    /\ Before(meth) \in Methods => results[Before(meth)].st # "notcalled"
    /\ LET a == Lookup(condition)
       IN  IF a = "undefined"
           THEN /\ results' = [results EXCEPT ![meth] = Thrown("Error: Invalid condition")]
                /\ UNCHANGED <<pc, method, analyzer, m, lk, i, loc, xarray, yarray, point>>
           ELSE IF a = "inherited"
           THEN /\ results' = [results EXCEPT ![meth] =
                                   Thrown("TypeError: analyzer.get...Equation is not a function")]
                /\ UNCHANGED <<pc, method, analyzer, m, lk, i, loc, xarray, yarray, point>>
           ELSE /\ pc' = "loop"
                /\ method' = meth
                /\ analyzer' = a
                /\ m' = FZero
                /\ lk' = FZero
                /\ i' = 0
                /\ loc' = IF a = "two-span-unequal"
                          THEN TwoSpanLocals(FromInt(load), FromInt(beam.primarySpan),
                                             FromInt(beam.secondarySpan))
                          ELSE SimplySupportedLocals(FromInt(load),
                                                     FromInt(beam.primarySpan))
                /\ xarray' = <<>>
                /\ yarray' = <<>>
                /\ point' = <<>>
                /\ UNCHANGED results
    /\ UNCHANGED <<beam, load, condition>>

GetDeflection == Get("getDeflection")

GetBendingMoment == Get("getBendingMoment")

GetShearForce == Get("getShearForce")

\* One iteration of the loop of simplySupported.getDeflectionEquation,
\* getBendingMomentEquation and getShearForceEquation
SimplySupportedStep ==
    /\ pc = "loop"
    /\ analyzer = "simply-supported"
    /\ FLe(m, loc.l)
    /\ Len(xarray) < MaxSamples
    /\ xarray' = Unshift(xarray, ToFixed2(m))
    /\ m' = FAdd(m, FDiv(loc.l, Hundred))
    /\ UNCHANGED <<beam, load, condition, pc, method, analyzer, lk, i, loc, yarray, point,
                   results>>

\* Deflection_branches without the snap to the right end l
Deflection_branches_NoEndSnap(x, l, l1, mn, cm, step, z1, z2, xs) ==
    IF FEq(x, FZero)
    THEN [ret |-> xs, lk |-> FSub(xs, FAdd(xs, step))]
    ELSE IF FLe(FAbs(FSub(x, l1)), step) /\ FLt(FSub(x, l1), FZero)
    THEN [ret |-> l1, lk |-> x]
    ELSE IF /\ FLt(x, l1) /\ FNe(x, z1) /\ FNe(mn, z1)
            /\ FLe(FAbs(FSub(x, z1)), step)
    THEN [ret |-> z1, lk |-> x]
    ELSE IF /\ FLt(l1, x) /\ FNe(x, z2) /\ FNe(mn, z2)
            /\ FLt(FAbs(FSub(x, z2)), step)
    THEN [ret |-> z2, lk |-> x]
    ELSE IF FEq(x, z1) \/ FEq(x, z2)
    THEN [ret |-> FAdd(mn, step), lk |-> x]
    ELSE [ret |-> xs, lk |-> FSub(xs, FAdd(cm, step))]

\* The branches of calculateValue of twoSpanUnequal.getDeflectionEquation, with
\* step = l / 100, z1 = r1 / w, z2 = l - r3 / w and xs = x + l / 100: the next
\* position ret and the new lk.  mn is lk at the call, cm the closure's m at
\* the call.
Deflection_branches(x, l, l1, mn, cm, step, z1, z2, xs) ==
    IF FEq(x, FZero)
    THEN [ret |-> xs, lk |-> FSub(xs, FAdd(xs, step))]
    ELSE IF FLe(FAbs(FSub(x, l1)), step) /\ FLt(FSub(x, l1), FZero)
    THEN [ret |-> l1, lk |-> x]
    ELSE IF /\ FLt(x, l1) /\ FNe(x, z1) /\ FNe(mn, z1)
            /\ FLe(FAbs(FSub(x, z1)), step)
    THEN [ret |-> z1, lk |-> x]
    ELSE IF FLt(FAbs(FSub(x, l)), step)
    THEN [ret |-> l, lk |-> mn]
    ELSE IF /\ FLt(l1, x) /\ FNe(x, z2) /\ FNe(mn, z2)
            /\ FLt(FAbs(FSub(x, z2)), step)
    THEN [ret |-> z2, lk |-> x]
    ELSE IF FEq(x, z1) \/ FEq(x, z2)
    THEN [ret |-> FAdd(mn, step), lk |-> x]
    ELSE [ret |-> xs, lk |-> FSub(xs, FAdd(cm, step))]

\* calculateValue of twoSpanUnequal.getDeflectionEquation
Deflection_calculateValue(x, l, l1, r1, w, mn, r3, cm) ==
    Deflection_branches(x, l, l1, mn, cm, FDiv(l, Hundred), FDiv(r1, w),
                        FSub(l, FDiv(r3, w)), FAdd(x, FDiv(l, Hundred)))

\* BendingMoment_branches without the lookback test mn !== r1 / w
BendingMoment_branches_NoLookback(x, l, l1, mn, cm, step, z1, z2, xs) ==
    IF FEq(x, FZero)
    THEN [ret |-> xs, lk |-> FSub(xs, FAdd(xs, step))]
    ELSE IF FLe(FAbs(FSub(x, l1)), step) /\ FLt(FSub(x, l1), FZero)
    THEN [ret |-> l1, lk |-> x]
    ELSE IF /\ FLt(x, l1) /\ FNe(x, z1)
            /\ FLe(FAbs(FSub(x, z1)), step)
    THEN [ret |-> z1, lk |-> x]
    ELSE IF FLt(FAbs(FSub(x, l)), step)
    THEN [ret |-> l, lk |-> mn]
    ELSE IF /\ FLt(l1, x) /\ FNe(x, z2) /\ FNe(mn, z2)
            /\ FLt(FAbs(FSub(x, z2)), step)
    THEN [ret |-> z2, lk |-> x]
    ELSE IF FEq(x, z1) \/ FEq(x, z2)
    THEN [ret |-> FAdd(mn, step), lk |-> x]
    ELSE [ret |-> xs, lk |-> FSub(xs, FAdd(cm, step))]

\* The branches of calculateValue of twoSpanUnequal.getBendingMomentEquation,
\* with step = l / 100, z1 = r1 / w, z2 = l - r3 / w and xs = x + l / 100: the
\* next position ret and the new lk.  mn is lk at the call, cm the closure's m
\* at the call.
BendingMoment_branches(x, l, l1, mn, cm, step, z1, z2, xs) ==
    IF FEq(x, FZero)
    THEN [ret |-> xs, lk |-> FSub(xs, FAdd(xs, step))]
    ELSE IF FLe(FAbs(FSub(x, l1)), step) /\ FLt(FSub(x, l1), FZero)
    THEN [ret |-> l1, lk |-> x]
    ELSE IF /\ FLt(x, l1) /\ FNe(x, z1) /\ FNe(mn, z1)
            /\ FLe(FAbs(FSub(x, z1)), step)
    THEN [ret |-> z1, lk |-> x]
    ELSE IF FLt(FAbs(FSub(x, l)), step)
    THEN [ret |-> l, lk |-> mn]
    ELSE IF /\ FLt(l1, x) /\ FNe(x, z2) /\ FNe(mn, z2)
            /\ FLt(FAbs(FSub(x, z2)), step)
    THEN [ret |-> z2, lk |-> x]
    ELSE IF FEq(x, z1) \/ FEq(x, z2)
    THEN [ret |-> FAdd(mn, step), lk |-> x]
    ELSE [ret |-> xs, lk |-> FSub(xs, FAdd(cm, step))]

\* calculateValue of twoSpanUnequal.getBendingMomentEquation
BendingMoment_calculateValue(x, l, l1, r1, w, mn, r3, cm) ==
    BendingMoment_branches(x, l, l1, mn, cm, FDiv(l, Hundred), FDiv(r1, w),
                           FSub(l, FDiv(r3, w)), FAdd(x, FDiv(l, Hundred)))

\* The branches of calculateValue of twoSpanUnequal.getShearForceEquation, with
\* step = l / 100 and xs = x + l / 100: the next position ret and the new mn.
\* The parameter pm shadows the closure's m; it is mn at the call.
ShearForce_branches(x, pm, l1, l, step, xs) ==
    IF FEq(x, FZero)
    THEN [ret |-> xs, mn |-> FSub(xs, FAdd(xs, step))]
    ELSE IF FLe(FAbs(FSub(x, l1)), step) /\ FLt(FSub(x, l1), FZero)
    THEN [ret |-> l1, mn |-> x]
    ELSE IF /\ FEq(FSub(x, l1), FZero) /\ FLe(FAbs(FSub(pm, l1)), step)
            /\ FNe(pm, x)
    THEN [ret |-> l1, mn |-> x]
    ELSE IF FLt(FAbs(FSub(x, l)), step)
    THEN [ret |-> l, mn |-> pm]
    ELSE [ret |-> xs, mn |-> FSub(xs, FAdd(pm, step))]

\* calculateValue of twoSpanUnequal.getShearForceEquation
ShearForce_calculateValue(x, pm, l1, l) ==
    ShearForce_branches(x, pm, l1, l, FDiv(l, Hundred), FAdd(x, FDiv(l, Hundred)))

\* calculate of twoSpanUnequal.getShearForceEquation
ShearForce_calculate(x, pm, pmn, r1, r2, w, l, l1) ==
    IF FEq(x, FZero) THEN r1
    ELSE IF FEq(x, l) THEN FSub(FAdd(r1, r2), FMul(w, l))
    ELSE IF FEq(x, l1) /\ FLt(FSub(pm, l1), FZero) THEN FSub(r1, FMul(w, l1))
    ELSE IF FEq(x, l1) /\ FLt(FZero, FSub(pmn, l1)) THEN FSub(FAdd(r1, r2), FMul(w, l1))
    ELSE IF FLt(x, l1) THEN FSub(r1, FMul(w, x))
    ELSE FSub(FAdd(r1, r2), FMul(w, x))

\* The index up to which getDeflectionEquation uses calculatePoint1
Point1LastIndex == 11

\* One iteration of the loop of twoSpanUnequal.getDeflectionEquation
TwoSpanDeflectionStep ==
    /\ pc = "loop"
    /\ analyzer = "two-span-unequal"
    /\ method = "getDeflection"
    /\ FLe(m, loc.l)
    /\ Len(xarray) < MaxSamples
    /\ point' = Unshift(point, IF i <= Point1LastIndex THEN 1 ELSE 2)
    /\ xarray' = Unshift(xarray, ToFixed2(m))
    /\ IF FEq(m, loc.l)
       THEN /\ pc' = "break"
            /\ UNCHANGED <<m, lk, i>>
       ELSE \E v \in {Deflection_calculateValue(m, loc.l, loc.l1, loc.r1, loc.w, lk,
                                                loc.r3, m)} :
                /\ m' = v.ret
                /\ lk' = v.lk
                /\ i' = i + 1
                /\ pc' = pc
    /\ UNCHANGED <<beam, load, condition, method, analyzer, loc, yarray, results>>

\* One iteration of the loop of twoSpanUnequal.getBendingMomentEquation
TwoSpanBendingMomentStep ==
    /\ pc = "loop"
    /\ analyzer = "two-span-unequal"
    /\ method = "getBendingMoment"
    /\ FLe(m, loc.l)
    /\ Len(xarray) < MaxSamples
    /\ xarray' = Unshift(xarray, ToFixed2(m))
    /\ IF FEq(m, loc.l)
       THEN /\ pc' = "break"
            /\ UNCHANGED <<m, lk>>
       ELSE \E v \in {BendingMoment_calculateValue(m, loc.l, loc.l1, loc.r1, loc.w, lk,
                                                   loc.r3, m)} :
                /\ m' = v.ret
                /\ lk' = v.lk
                /\ pc' = pc
    /\ UNCHANGED <<beam, load, condition, method, analyzer, i, loc, yarray, point, results>>

\* One iteration of the loop of twoSpanUnequal.getShearForceEquation
TwoSpanShearForceStep ==
    /\ pc = "loop"
    /\ analyzer = "two-span-unequal"
    /\ method = "getShearForce"
    /\ FLe(m, loc.l)
    /\ Len(xarray) < MaxSamples
    /\ yarray' = Unshift(yarray,
                         ToFixed2(ShearForce_calculate(m, lk, m, loc.r1, loc.r2, loc.w, loc.l,
                                              loc.l1)))
    /\ xarray' = Unshift(xarray, ToFixed2(m))
    /\ IF FEq(m, loc.l)
       THEN /\ pc' = "break"
            /\ UNCHANGED <<m, lk>>
       ELSE \E v \in {ShearForce_calculateValue(m, lk, loc.l1, loc.l)} :
                /\ m' = v.ret
                /\ lk' = v.mn
                /\ pc' = pc
    /\ UNCHANGED <<beam, load, condition, method, analyzer, i, loc, point, results>>

\* The loop is left, by its test or by break; the analyzer method reverses
\* its arrays and returns the curve, and the getter wraps it.
Return ==
    /\ \/ pc = "break"
       \/ pc = "loop" /\ ~FLe(m, loc.l)
    /\ results' = [results EXCEPT ![method] =
                       Returned(beam, load,
                                [analys |-> Analys(method), xdata |-> Reverse(xarray),
                                 ydata |-> Reverse(yarray), point |-> Reverse(point)])]
    /\ pc' = "idle"
    /\ method' = "none"
    /\ analyzer' = "none"
    /\ UNCHANGED <<beam, load, condition, m, lk, i, loc, xarray, yarray, point>>

Next ==
    \/ GetDeflection
    \/ GetBendingMoment
    \/ GetShearForce
    \/ SimplySupportedStep
    \/ TwoSpanDeflectionStep
    \/ TwoSpanBendingMomentStep
    \/ TwoSpanShearForceStep
    \/ Return

Spec == Init /\ [][Next]_vars

(***************************************************************************)
(* Properties                                                              *)
(***************************************************************************)
\* The emitted string of an integer position n: n.toFixed(2)
Fixed(n) == [k |-> "num", neg |-> n < 0, n |-> 100 * (IF n < 0 THEN -n ELSE n)]

Range(a) == {a[j] : j \in DOMAIN a}

Count(a, v) == Cardinality({j \in DOMAIN a : a[j] = v})

\* The total beam length of the caller's request
TotalLength == IF condition = "two-span-unequal"
               THEN beam.primarySpan + beam.secondarySpan
               ELSE beam.primarySpan

\* The request's geometry is valid: positive span length(s)
ValidGeometry == /\ beam.primarySpan > 0
                 /\ condition = "two-span-unequal" => beam.secondarySpan > 0

ValidTwoSpan == /\ condition = "two-span-unequal"
                /\ beam.primarySpan > 0
                /\ beam.secondarySpan > 0

\* The locals of a twoSpanUnequal method on the caller's beam and load
CallerLocals == TwoSpanLocals(FromInt(load), FromInt(beam.primarySpan),
                              FromInt(beam.secondarySpan))

\* The zero-shear points r1/w and l - r3/w of the caller's beam and load
ZeroShear1 == FDiv(CallerLocals.r1, CallerLocals.w)

ZeroShear2 == FSub(CallerLocals.l, FDiv(CallerLocals.r3, CallerLocals.w))

HasReturned(meth) == results[meth].st = "returned"

Xdata(meth) == results[meth].equation.xdata

\* C1: for a condition that is not a registered name, every getter that was
\* called threw the error 'Invalid condition', and no analyzer method ran.
C1_UnsupportedConditionError ==
    condition \notin Registered =>
        /\ pc = "idle"
        /\ \A meth \in Methods :
               results[meth].st # "notcalled" =>
                   results[meth] = Thrown("Error: Invalid condition")

\* C2: for positive span length(s) and every load, every returned curve's
\* xdata starts at 0, ends at the total beam length, and holds each of the
\* two exactly once.
C2_EndpointsExactlyOnce ==
    \A meth \in Methods :
        (condition \in Registered /\ ValidGeometry /\ HasReturned(meth)) =>
            /\ Xdata(meth) # <<>>
            /\ Xdata(meth)[1] = Fixed(0)
            /\ Xdata(meth)[Len(Xdata(meth))] = Fixed(TotalLength)
            /\ Count(Xdata(meth), Fixed(0)) = 1
            /\ Count(Xdata(meth), Fixed(TotalLength)) = 1

\* C3: for positive span length(s) and a non-zero load, the emitted
\* positions of every returned curve are non-decreasing in emission order.
C3_PositionsNonDecreasing ==
    \A meth \in Methods :
        (condition \in Registered /\ ValidGeometry /\ load # 0 /\ HasReturned(meth)) =>
            \A j \in 1 .. Len(Xdata(meth)) - 1 :
                /\ ~Xdata(meth)[j].neg
                /\ ~Xdata(meth)[j + 1].neg
                /\ Xdata(meth)[j].n <= Xdata(meth)[j + 1].n

\* C4: for positive spans and every load, the two-span shear-force curve has
\* two consecutive samples at x = l1, the first with the left-limit value
\* r1 - w*l1 and the second with the right-limit value r1 + r2 - w*l1.
C4_ShearJumpAtSupport ==
    (ValidTwoSpan /\ HasReturned("getShearForce")) =>
        \E j \in 1 .. Len(Xdata("getShearForce")) - 1 :
            /\ Xdata("getShearForce")[j] = Fixed(beam.primarySpan)
            /\ Xdata("getShearForce")[j + 1] = Fixed(beam.primarySpan)
            /\ results["getShearForce"].equation.ydata[j] =
                   ToFixed2(FSub(CallerLocals.r1,
                                 FMul(CallerLocals.w, CallerLocals.l1)))
            /\ results["getShearForce"].equation.ydata[j + 1] =
                   ToFixed2(FSub(FAdd(CallerLocals.r1, CallerLocals.r2),
                                 FMul(CallerLocals.w, CallerLocals.l1)))

\* C5: for positive spans and a non-zero load, each two-span sampling loop
\* ends after finitely many samples and exactly when the emitted position
\* equals l: the running position never passes l, the loop is left by the
\* break at m == l and not by its test, and the sample count stays below the
\* bound at which the arrays stop growing.
C5_TwoSpanLoopEndsAtL ==
    (ValidTwoSpan /\ load # 0 /\ analyzer = "two-span-unequal") =>
        /\ pc = "loop" => (FLe(m, loc.l) /\ Len(xarray) < MaxSamples)
        /\ pc = "break" => (FEq(m, loc.l) /\ Head(xarray) = ToFixed2(loc.l))

\* C5 happens: a two-span loop on a valid beam under a non-zero load has
\* emitted more than 100 samples and left by its break.
C5_Witness ==
    /\ ValidTwoSpan
    /\ load # 0
    /\ pc = "break"
    /\ method = "getShearForce"
    /\ Len(xarray) > 100
    /\ HasReturned("getDeflection")
    /\ HasReturned("getBendingMoment")

\* C6: for positive spans and a non-zero load, the xdata of the two-span
\* deflection and bending-moment curves holds the middle support l1, r1/w
\* when 0 < r1/w < l1, and l - r3/w when l1 < l - r3/w < l.
C6_CriticalCoordinatesSampled ==
    \A meth \in {"getDeflection", "getBendingMoment"} :
        (ValidTwoSpan /\ load # 0 /\ HasReturned(meth)) =>
            /\ Fixed(beam.primarySpan) \in Range(Xdata(meth))
            /\ (FLt(FZero, ZeroShear1) /\ FLt(ZeroShear1, CallerLocals.l1)) =>
                   ToFixed2(ZeroShear1) \in Range(Xdata(meth))
            /\ (FLt(CallerLocals.l1, ZeroShear2) /\ FLt(ZeroShear2, CallerLocals.l)) =>
                   ToFixed2(ZeroShear2) \in Range(Xdata(meth))

\* C7: a request with primarySpan <= 0, or with secondarySpan <= 0 under
\* 'two-span-unequal', fails with an error: no sample is emitted and no
\* curve is returned.
C7_InvalidGeometryFailsFast ==
    (condition \in Registered /\ ~ValidGeometry) =>
        /\ xarray = <<>>
        /\ \A meth \in Methods : ~HasReturned(meth)

\* C8: for primarySpan l > 0 and every load, each simply-supported curve has
\* exactly 101 samples, the k-th (k = 0..100) at position k*l/100.
C8_SimplySupportedUniformGrid ==
    \A meth \in Methods :
        (condition = "simply-supported" /\ beam.primarySpan > 0 /\ HasReturned(meth)) =>
            /\ Len(Xdata(meth)) = 101
            /\ \A k \in 0 .. 100 :
                   Xdata(meth)[k + 1] =
                       [k |-> "num", neg |-> FALSE, n |-> k * beam.primarySpan]

\* C9: in the two-span deflection curve, for positive spans and every load,
\* a sample at position x is computed with formula 1 exactly when x <= l1
\* and with formula 2 exactly when x > l1.
C9_FormulaChosenByPosition ==
    (ValidTwoSpan /\ HasReturned("getDeflection")) =>
        \A j \in 1 .. Len(Xdata("getDeflection")) :
            results["getDeflection"].equation.point[j] =
                (IF Xdata("getDeflection")[j].n <= 100 * beam.primarySpan THEN 1 ELSE 2)

=============================================================================
